---- MODULE Spec2Model ----
(***************************************************************************)
(* Model of src/src/truth_table_generator.py: the notation translator      *)
(* (parse_boolean_expression), the table enumerator (generate_truth_table),*)
(* the table renderer (create_docx_table) and the input loop (main).       *)
(*                                                                         *)
(* A Python str is a sequence of one-character strings.  The three         *)
(* non-ASCII characters of the program are written by their code points:   *)
(* "U+00AC" is the NOT sign, "U+2228" the OR sign, "U+2116" the numero     *)
(* sign, because a module is ASCII text.                                   *)
(***************************************************************************)
EXTENDS Integers, Sequences, FiniteSets, TLC

(***************************************************************************)
(* Bounds of the model.                                                    *)
(***************************************************************************)
\* longest line typed at the prompt, in characters
MaxLen == 4

(***************************************************************************)
(* Characters.                                                             *)
(***************************************************************************)
NOT_SIGN == "U+00AC"
OR_SIGN == "U+2228"
NUMERO_SIGN == "U+2116"

Upper == <<"A", "B", "C", "D", "E", "F", "G", "H", "I", "J", "K", "L", "M",
           "N", "O", "P", "Q", "R", "S", "T", "U", "V", "W", "X", "Y", "Z">>
Lower == <<"a", "b", "c", "d", "e", "f", "g", "h", "i", "j", "k", "l", "m",
           "n", "o", "p", "q", "r", "s", "t", "u", "v", "w", "x", "y", "z">>
DigitChar == <<"0", "1", "2", "3", "4", "5", "6", "7", "8", "9">>

Range(q) == {q[i] : i \in 1..Len(q)}
IndexOf(q, c) == CHOOSE i \in 1..Len(q) : q[i] = c

Letters == Range(Upper) \cup Range(Lower)
Digits == Range(DigitChar)
Whitespace == {" "}

\* ord(c) for the characters that can occur in an identifier
Ord(c) == CASE c \in Range(Upper) -> 64 + IndexOf(Upper, c)
            [] c \in Range(Lower) -> 96 + IndexOf(Lower, c)
            [] c \in Digits -> 47 + IndexOf(DigitChar, c)
            [] c = "_" -> 95

\* the characters a typed line is drawn from: three names, a blank and
\* every operator and parenthesis of the notation
Alphabet == {"A", "B", "a", " ", NOT_SIGN, "*", "^", "+", OR_SIGN, "(", ")"}

\* longer lines typed as well: the examples of the program's documentation
Examples == {
    <<"A", "^", "B", "^", "C">>,
    <<"A", "+", "B", "+", "A">>,
    <<NOT_SIGN, "(", "A", "*", NOT_SIGN, "B", ")", "+", "C">> }

\* every line that can be typed at the prompt
Inputs == UNION {[1..n -> Alphabet] : n \in 0..MaxLen} \cup Examples

(***************************************************************************)
(* str methods used by the program.                                        *)
(***************************************************************************)
RECURSIVE lstrip(_)
lstrip(s) == IF s # <<>> /\ Head(s) \in Whitespace THEN lstrip(Tail(s)) ELSE s

RECURSIVE rstrip(_)
rstrip(s) == IF s # <<>> /\ s[Len(s)] \in Whitespace
             THEN rstrip(SubSeq(s, 1, Len(s) - 1)) ELSE s

\* str.strip()
strip(s) == rstrip(lstrip(s))

\* str.replace(old, new) for one-character old and new
replace(s, old, new) == [i \in 1..Len(s) |-> IF s[i] = old THEN new ELSE s[i]]

\* str < str: Python compares strings by code point, left to right
RECURSIVE StrLess(_, _)
StrLess(a, b) ==
    IF a = <<>> THEN b # <<>>
    ELSE IF b = <<>> THEN FALSE
    ELSE IF Ord(Head(a)) # Ord(Head(b)) THEN Ord(Head(a)) < Ord(Head(b))
    ELSE StrLess(Tail(a), Tail(b))

\* sorted(S) of a set of strings
RECURSIVE sorted(_)
sorted(S) ==
    IF S = {} THEN <<>>
    ELSE LET m == CHOOSE x \in S : \A y \in S : y = x \/ StrLess(x, y)
         IN  <<m>> \o sorted(S \ {m})

\* set(seq)
set(q) == {q[i] : i \in 1..Len(q)}

(***************************************************************************)
(* re.findall(r'\b[A-Za-z_][A-Za-z0-9_]*\b', s)                            *)
(***************************************************************************)
IdentStart == Letters \cup {"_"}
IdentChar == IdentStart \cup Digits
\* \w, as far as the characters of the model go
WordChar == IdentChar

\* \b at the gap before position p (1-based; p = Len(s) + 1 is the end)
WordBoundary(s, p) ==
    LET before == p > 1 /\ s[p - 1] \in WordChar
        after == p <= Len(s) /\ s[p] \in WordChar
    IN  before # after

\* last position of the greedy run [A-Za-z0-9_]* that starts at p
RECURSIVE RunEnd(_, _)
RunEnd(s, p) ==
    IF p < Len(s) /\ s[p + 1] \in IdentChar THEN RunEnd(s, p + 1) ELSE p

\* the longest e in p..hi with \b after position e; 0 if none (backtracking)
RECURSIVE BacktrackEnd(_, _, _)
BacktrackEnd(s, p, hi) ==
    IF hi < p THEN 0
    ELSE IF WordBoundary(s, hi + 1) THEN hi
    ELSE BacktrackEnd(s, p, hi - 1)

RECURSIVE findall_from(_, _)
findall_from(s, p) ==
    IF p > Len(s) THEN <<>>
    ELSE IF WordBoundary(s, p) /\ s[p] \in IdentStart
              /\ BacktrackEnd(s, p, RunEnd(s, p)) # 0
         THEN LET e == BacktrackEnd(s, p, RunEnd(s, p))
              IN  <<SubSeq(s, p, e)>> \o findall_from(s, e + 1)
         ELSE findall_from(s, p + 1)

findall(s) == findall_from(s, 1)

(***************************************************************************)
(* sympy objects.  A value produced while sympify evaluates the string is  *)
(*   <<"Symbol", name>>            a Symbol (a Boolean, and callable)      *)
(*   <<"Not", arg>>                Not(arg)                                *)
(*   <<"And", args>>, <<"Or", args>>   And / Or over a set of arguments    *)
(*   <<"AppliedUndef", name, args>>    name(args): Symbol.__call__ makes   *)
(*                                 an undefined function application       *)
(*   <<"tuple">>                   the empty tuple ()                      *)
(***************************************************************************)
Symbol(name) == <<"Symbol", name>>

\* the Symbols in the reverse order of the names
symbols_reversed(names) ==
    [k \in 1..Len(names) |-> Symbol(names[Len(names) + 1 - k])]

\* symbols(names): one Symbol per name, in the order of the names
symbols(names) == [k \in 1..Len(names) |-> Symbol(names[k])]

\* isinstance(v, Boolean)
IsBoolean(v) == v[1] \in {"Symbol", "Not", "And", "Or"}

\* Not.eval: the negation of a negation is its argument
Not(arg) == IF arg[1] = "Not" THEN arg[2] ELSE <<"Not", arg>>

\* LatticeOp.__new__: arguments of the same class are flattened, repeated
\* arguments collapse, and a single remaining argument is the result
LatticeOp(cls, l, r) ==
    LET flat(x) == IF x[1] = cls THEN x[2] ELSE {x}
        args == flat(l) \cup flat(r)
    IN  IF Cardinality(args) = 1 THEN CHOOSE x \in args : TRUE
        ELSE <<cls, args>>

And(l, r) == LatticeOp("And", l, r)
Or(l, r) == LatticeOp("Or", l, r)

\* bool(expr.subs(val_dict)): val_dict maps each Symbol to 0 or 1.  An
\* undefined function application stays an expression object, which is
\* truthy whatever its arguments.
RECURSIVE subs_bool(_, _)
subs_bool(e, val_dict) ==
    CASE e[1] = "Symbol" -> val_dict[e] = 1
      [] e[1] = "Not" -> ~subs_bool(e[2], val_dict)
      [] e[1] = "And" -> \A x \in e[2] : subs_bool(x, val_dict)
      [] e[1] = "Or" -> \E x \in e[2] : subs_bool(x, val_dict)
      [] OTHER -> TRUE

(***************************************************************************)
(* sympify(expr_str, locals=var_dict): the string is tokenized and         *)
(* evaluated as a Python expression in which every name is bound to its    *)
(* Symbol.  Of Python's grammar the characters left after the replacements *)
(* reach: or_expr (|), and_expr (&), factor (~), atom with call trailers,  *)
(* parentheses and the empty tuple.                                        *)
(***************************************************************************)
\* Python tokens of s from position p: names are maximal runs of identifier
\* characters, every other character is an operator, blanks separate
RECURSIVE tokenize_from(_, _)
tokenize_from(s, p) ==
    IF p > Len(s) THEN <<>>
    ELSE IF s[p] \in Whitespace THEN tokenize_from(s, p + 1)
    ELSE IF s[p] \in IdentStart
         THEN LET e == RunEnd(s, p)
              IN  <<SubSeq(s, p, e)>> \o tokenize_from(s, e + 1)
    ELSE <<(<<s[p]>>)>> \o tokenize_from(s, p + 1)

tokenize(s) == tokenize_from(s, 1)

IsName(tok) == tok[1] \in IdentStart
IsOp(t, p, c) == p <= Len(t) /\ t[p] = <<c>>

Failed == [ok |-> FALSE, val |-> <<"error">>, pos |-> 0]
Parsed(v, p) == [ok |-> TRUE, val |-> v, pos |-> p]

RECURSIVE or_expr(_, _, _), or_rest(_, _, _, _), or_apply(_, _, _, _),
          and_expr(_, _, _), and_rest(_, _, _, _), and_apply(_, _, _, _),
          factor(_, _, _), trailers(_, _, _, _), call(_, _, _, _),
          atom(_, _, _)

\* the operators after a parsed left operand l, if l was parsed
or_continue(t, l, var_dict) ==
    IF l.ok THEN or_rest(t, l.val, l.pos, var_dict) ELSE Failed

and_continue(t, l, var_dict) ==
    IF l.ok THEN and_rest(t, l.val, l.pos, var_dict) ELSE Failed

\* or_expr: and_expr ('|' and_expr)*, left to right
or_expr(t, p, var_dict) == or_continue(t, and_expr(t, p, var_dict), var_dict)

or_rest(t, left, p, var_dict) ==
    IF IsOp(t, p, "|")
    THEN or_apply(t, left, and_expr(t, p + 1, var_dict), var_dict)
    ELSE Parsed(left, p)

\* left | r: Boolean.__or__ takes Boolean operands only
or_apply(t, left, r, var_dict) ==
    IF r.ok /\ IsBoolean(left) /\ IsBoolean(r.val)
    THEN or_rest(t, Or(left, r.val), r.pos, var_dict)
    ELSE Failed

\* and_expr: factor ('&' factor)*, left to right
and_expr(t, p, var_dict) == and_continue(t, factor(t, p, var_dict), var_dict)

and_rest(t, left, p, var_dict) ==
    IF IsOp(t, p, "&")
    THEN and_apply(t, left, factor(t, p + 1, var_dict), var_dict)
    ELSE Parsed(left, p)

\* left & r: Boolean.__and__ takes Boolean operands only
and_apply(t, left, r, var_dict) ==
    IF r.ok /\ IsBoolean(left) /\ IsBoolean(r.val)
    THEN and_rest(t, And(left, r.val), r.pos, var_dict)
    ELSE Failed

\* ~r: Boolean.__invert__
invert(r) == IF r.ok /\ IsBoolean(r.val) THEN Parsed(Not(r.val), r.pos)
             ELSE Failed

\* the trailers after a parsed atom a, if a was parsed
trailers_continue(t, a, var_dict) ==
    IF a.ok THEN trailers(t, a.val, a.pos, var_dict) ELSE Failed

\* factor: '~' factor | atom trailer*
factor(t, p, var_dict) ==
    IF IsOp(t, p, "~") THEN invert(factor(t, p + 1, var_dict))
    ELSE trailers_continue(t, atom(t, p, var_dict), var_dict)

\* trailer: '(' [expr] ')' calls the value before it; only a Symbol is
\* callable (Symbol.__call__ applies an undefined function of its name)
trailers(t, callee, p, var_dict) ==
    IF IsOp(t, p, "(")
    THEN IF IsOp(t, p + 1, ")")
         THEN IF callee[1] = "Symbol"
              THEN trailers(t, <<"AppliedUndef", callee[2], <<>>>>, p + 2,
                            var_dict)
              ELSE Failed
         ELSE call(t, callee, or_expr(t, p + 1, var_dict), var_dict)
    ELSE Parsed(callee, p)

\* callee(r) for the parsed argument r
call(t, callee, r, var_dict) ==
    IF r.ok /\ IsOp(t, r.pos, ")") /\ callee[1] = "Symbol"
    THEN trailers(t, <<"AppliedUndef", callee[2], <<r.val>>>>, r.pos + 1,
                  var_dict)
    ELSE Failed

\* '(' expr ')' for the parsed expr r
parenthesized(t, r) ==
    IF r.ok /\ IsOp(t, r.pos, ")") THEN Parsed(r.val, r.pos + 1) ELSE Failed

\* atom: NAME | '(' expr ')' | '(' ')'
atom(t, p, var_dict) ==
    IF p > Len(t) THEN Failed
    ELSE IF IsName(t[p])
         THEN IF t[p] \in DOMAIN var_dict THEN Parsed(var_dict[t[p]], p + 1)
              ELSE Failed
    ELSE IF t[p] = <<"(">>
         THEN IF IsOp(t, p + 1, ")") THEN Parsed(<<"tuple">>, p + 2)
              ELSE parenthesized(t, or_expr(t, p + 1, var_dict))
    ELSE Failed

\* the expression must end where the tokens end
whole(t, r) ==
    IF r.ok /\ r.pos = Len(t) + 1 THEN [ok |-> TRUE, val |-> r.val]
    ELSE [ok |-> FALSE, val |-> <<"error">>]

eval_tokens(t, var_dict) == whole(t, or_expr(t, 1, var_dict))

\* sympify: [ok, val]; not ok when tokenizing, parsing or evaluating raises
sympify(expr_str, var_dict) == eval_tokens(tokenize(expr_str), var_dict)

(***************************************************************************)
(* parse_boolean_expression(expr_input).  The result is                    *)
(*   [ok |-> TRUE, sympy_expr, variables, vars_names]   on return          *)
(*   [ok |-> FALSE, error, cause]   when ValueError is raised; error is    *)
(*   the leading text of the message, cause the reason it wraps.           *)
(***************************************************************************)
NoValue == <<"none">>

Raise(error, cause) ==
    [ok |-> FALSE, error |-> error, cause |-> cause,
     sympy_expr |-> NoValue, variables |-> <<>>, vars_names |-> <<>>]

Return(sympy_expr, variables, vars_names) ==
    [ok |-> TRUE, error |-> "", cause |-> "",
     sympy_expr |-> sympy_expr, variables |-> variables,
     vars_names |-> vars_names]

\* the replacements with ^ taken for OR
substitute_caret_as_or(expr_input) ==
    replace(replace(replace(replace(replace(expr_input,
        NOT_SIGN, "~"), "*", "&"), "^", "|"), "+", "|"), OR_SIGN, "|")

\* the five replacements, in the order of the source
substitute(expr_input) ==
    replace(replace(replace(replace(replace(expr_input,
        NOT_SIGN, "~"), "*", "&"), "^", "&"), "+", "|"), OR_SIGN, "|")

\* the names in the order of their first occurrence, not sorted
RECURSIVE first_occurrences(_)
first_occurrences(q) ==
    IF q = <<>> THEN <<>>
    ELSE LET front == first_occurrences(SubSeq(q, 1, Len(q) - 1))
         IN  IF q[Len(q)] \in set(front) THEN front
             ELSE Append(front, q[Len(q)])

extract_vars_names_unsorted(expr_str) == first_occurrences(findall(expr_str))

\* sorted(set(re.findall(..., expr_str)))
extract_vars_names(expr_str) == sorted(set(findall(expr_str)))

\* var_dict = {str(v): v for v in variables}
make_var_dict(variables) ==
    [n \in {variables[k][2] : k \in 1..Len(variables)} |-> Symbol(n)]

\* the return statement, or the except clause when sympify has raised
return_or_wrap(r, variables, vars_names) ==
    IF ~r.ok THEN Raise("Invalid Boolean expression", "sympify")
    ELSE Return(r.val, variables, vars_names)

\* the try block after the names are extracted, without the check for an
\* empty list of names
check_and_parse_unchecked(expr_str, vars_names) ==
    return_or_wrap(sympify(expr_str, make_var_dict(symbols(vars_names))),
                   symbols(vars_names), vars_names)

\* the try block after the names are extracted.  The ValueError for an
\* empty list is raised inside the try block, so the except clause wraps it
\* like any other failure.
check_and_parse(expr_str, vars_names) ==
    IF vars_names = <<>>
    THEN Raise("Invalid Boolean expression", "No valid variables found")
    ELSE return_or_wrap(sympify(expr_str, make_var_dict(symbols(vars_names))),
                        symbols(vars_names), vars_names)

extract_and_parse(expr_str) ==
    check_and_parse(expr_str, extract_vars_names(expr_str))

\* the body of the try block
try_body(expr_input) == extract_and_parse(substitute(expr_input))

strip_and_parse(expr_input) ==
    IF expr_input = <<>> THEN Raise("Expression cannot be empty.", "")
    ELSE try_body(expr_input)

parse_boolean_expression(raw) == strip_and_parse(strip(raw))

(***************************************************************************)
(* generate_truth_table(sympy_expr, variables)                             *)
(***************************************************************************)
\* str(n) for an int n >= 0: its decimal digits
RECURSIVE str(_)
str(n) == IF n < 10 THEN <<DigitChar[n + 1]>>
          ELSE str(n \div 10) \o <<DigitChar[(n % 10) + 1]>>

\* the product with the first position changing fastest
RECURSIVE product_first_fastest(_, _)
product_first_fastest(pool, repeat) ==
    IF repeat = 0 THEN << <<>> >>
    ELSE LET result == product_first_fastest(pool, repeat - 1)
         IN  [k \in 1..(Len(result) * Len(pool)) |->
                <<pool[((k - 1) % Len(pool)) + 1]>>
                    \o result[((k - 1) \div Len(pool)) + 1]]

\* itertools.product(pool, repeat=n): result = [[]], then for each of the n
\* pools result = [x + [y] for x in result for y in pool]
RECURSIVE product(_, _)
product(pool, repeat) ==
    IF repeat = 0 THEN << <<>> >>
    ELSE LET result == product(pool, repeat - 1)
         IN  [k \in 1..(Len(result) * Len(pool)) |->
                Append(result[((k - 1) \div Len(pool)) + 1],
                       pool[((k - 1) % Len(pool)) + 1])]

\* {variables[j]: values[j] for j in range(len(variables))}: a later j
\* replaces an earlier one with the same key
make_val_dict(variables, values) ==
    [v \in set(variables) |->
        LET js == {j \in 1..Len(variables) : variables[j] = v}
        IN  values[CHOOSE j \in js : \A k \in js : k <= j]]

\* one row: [str(i)] + [str(v) for v in values] + [str(func_val)]
make_row(sympy_expr, variables, i, values) ==
    LET val_dict == make_val_dict(variables, values)
        func_val == IF subs_bool(sympy_expr, val_dict) THEN 1 ELSE 0
    IN  <<str(i)>> \o [j \in 1..Len(values) |-> str(values[j])]
                   \o <<str(func_val)>>

\* the enumeration with enumerate(..., start=1)
generate_truth_table_from_one(sympy_expr, variables) ==
    LET all_values == product(<<0, 1>>, Len(variables))
    IN  [k \in 1..Len(all_values) |->
            make_row(sympy_expr, variables, k, all_values[k])]

generate_truth_table(sympy_expr, variables) ==
    LET all_values == product(<<0, 1>>, Len(variables))
    IN  [k \in 1..Len(all_values) |->
            make_row(sympy_expr, variables, k - 1, all_values[k])]

(***************************************************************************)
(* create_docx_table(rows_data, vars_names, user_expression).  A table is  *)
(* [ok, cells]: cells[r][c] is the text of the cell in row r, column c     *)
(* (1-based), and ok turns FALSE when a cell outside the table is          *)
(* addressed (IndexError).  Fonts, alignment and borders are left out.     *)
(***************************************************************************)
\* doc.add_table(rows, cols): every cell empty
add_table(rows, cols) ==
    [ok |-> TRUE, cells |-> [r \in 1..rows |-> [c \in 1..cols |-> <<>>]]]

\* set_cell_center(table.rows[r - 1].cells[c - 1], text)
set_cell_center(table, r, c, text) ==
    IF ~table.ok THEN table
    ELSE IF r \in 1..Len(table.cells) /\ c \in 1..Len(table.cells[r])
         THEN [table EXCEPT !.cells[r][c] = text]
         ELSE [table EXCEPT !.ok = FALSE]

\* for j, name in enumerate(vars_names): hdr_cells[j + 1] = name; an
\* IndexError ends the loop
RECURSIVE fill_names(_, _, _)
fill_names(table, vars_names, j) ==
    IF j > Len(vars_names) THEN table
    ELSE LET t == set_cell_center(table, 1, j + 1, vars_names[j])
         IN  IF t.ok THEN fill_names(t, vars_names, j + 1) ELSE t

\* the header row without its last cell
fill_header_without_f(table, vars_names) ==
    fill_names(set_cell_center(table, 1, 1, <<NUMERO_SIGN>>), vars_names, 1)

\* the header row: cells[0], the names, then cells[-1]
fill_header(table, vars_names) ==
    LET t1 == set_cell_center(table, 1, 1, <<NUMERO_SIGN>>)
        t2 == fill_names(t1, vars_names, 1)
    IN  IF t2.ok THEN set_cell_center(t2, 1, Len(t2.cells[1]), <<"f">>)
        ELSE t2

\* for j, val in enumerate(row): table.rows[i + 1].cells[j] = val
RECURSIVE fill_row(_, _, _, _)
fill_row(table, row, i, j) ==
    IF j > Len(row) THEN table
    ELSE LET t == set_cell_center(table, i + 1, j, row[j])
         IN  IF t.ok THEN fill_row(t, row, i, j + 1) ELSE t

\* for i, row in enumerate(rows_data)
RECURSIVE fill_rows(_, _, _)
fill_rows(table, rows_data, i) ==
    IF i > Len(rows_data) THEN table
    ELSE LET t == fill_row(table, rows_data[i], i, 1)
         IN  IF t.ok THEN fill_rows(t, rows_data, i + 1) ELSE t

\* the document built before doc.save: [ok, caption, cells]
create_docx_table(rows_data, vars_names, user_expression) ==
    LET table == add_table(Len(rows_data) + 1, Len(vars_names) + 2)
        filled == fill_rows(fill_header(table, vars_names), rows_data, 1)
    IN  [ok |-> filled.ok, caption |-> user_expression,
         cells |-> filled.cells]

(***************************************************************************)
(* main(): the state of a run.                                             *)
(***************************************************************************)
VARIABLES
    pc,          \* "input", "generate", "render", "exit_ok", "exit_error";
                 \* "call" and "returned" when the translator runs alone
    user_input,  \* the accepted line (stripped); <<>> while prompting
    expr,        \* the sympy expression
    variables,   \* the list of Symbols
    vars_names,  \* the sorted list of names
    rows_data,   \* the rows of generate_truth_table
    file,        \* truth_table.docx: NoFile, PartialFile or the document
    saves,       \* number of completed doc.save calls
    printed      \* the last message printed

vars == <<pc, user_input, expr, variables, vars_names, rows_data, file,
          saves, printed>>

NoFile == [ok |-> FALSE, caption |-> <<>>, cells |-> <<>>]
PartialFile == [ok |-> FALSE, caption |-> <<"...">>, cells |-> <<>>]

Init ==
    /\ pc = "input"
    /\ user_input = <<>>
    /\ expr = NoValue
    /\ variables = <<>>
    /\ vars_names = <<>>
    /\ rows_data = <<>>
    /\ file = NoFile
    /\ saves = 0
    /\ printed = <<>>

\* the iteration without the except clause: a ValueError ends the run
handle_line_uncaught(stripped, r) ==
    IF stripped = <<>>
    THEN [pc |-> "input", user_input |-> <<>>, result |-> Raise("", ""),
          printed |-> <<"Error", "Expression cannot be empty.", "">>]
    ELSE IF r.ok
    THEN [pc |-> "generate", user_input |-> stripped, result |-> r,
          printed |-> <<>>]
    ELSE [pc |-> "exit_error", user_input |-> <<>>, result |-> r,
          printed |-> <<"Traceback", r.error, r.cause>>]

\* the body of the while loop for the stripped line and the outcome r of
\* parse_boolean_expression on it (not called for an empty line): where
\* control goes, what is printed and what was returned
handle_line(stripped, r) ==
    IF stripped = <<>>
    THEN [pc |-> "input", user_input |-> <<>>, result |-> Raise("", ""),
          printed |-> <<"Error", "Expression cannot be empty.", "">>]
    ELSE IF r.ok
    THEN [pc |-> "generate", user_input |-> stripped, result |-> r,
          printed |-> <<>>]
    ELSE [pc |-> "input", user_input |-> <<>>, result |-> r,
          printed |-> <<"Error", r.error, r.cause>>]

handle_stripped(stripped) ==
    handle_line(stripped, parse_boolean_expression(stripped))

\* one iteration of the while loop on the line typed
loop_iteration(line) == handle_stripped(strip(line))

\* the assignments of one iteration
Iterate(it) ==
    /\ pc' = it.pc
    /\ user_input' = it.user_input
    /\ expr' = it.result.sympy_expr
    /\ variables' = it.result.variables
    /\ vars_names' = it.result.vars_names
    /\ printed' = IF it.printed = <<>> THEN printed ELSE it.printed

\* the while loop: a line is read and handled.  user_input of a rejected
\* line is overwritten by the next input() before anything reads it, so the
\* state keeps it only for the accepted line.
ReadLine ==
    /\ pc = "input"
    /\ \E line \in Inputs : Iterate(loop_iteration(line))
    /\ UNCHANGED <<rows_data, file, saves>>

\* rows_data = generate_truth_table(expr, variables)
GenerateTruthTable ==
    /\ pc = "generate"
    /\ rows_data' = generate_truth_table(expr, variables)
    /\ pc' = "render"
    /\ UNCHANGED <<user_input, expr, variables, vars_names, file, saves,
                   printed>>

\* doc.save(output_file) and the confirmation, or the IndexError raised
\* while the table was filled
Save(doc) ==
    IF doc.ok
    THEN /\ file' = doc
         /\ saves' = saves + 1
         /\ printed' = <<"Truth table saved to", "truth_table.docx">>
         /\ pc' = "exit_ok"
    ELSE /\ pc' = "exit_error"
         /\ UNCHANGED <<file, saves, printed>>

\* create_docx_table(rows_data, vars_names, user_input) with doc.save
\* succeeding: the file is written and the confirmation printed
CreateDocxTable ==
    /\ pc = "render"
    /\ Save(create_docx_table(rows_data, vars_names, user_input))
    /\ UNCHANGED <<user_input, expr, variables, vars_names, rows_data>>

\* a failed save that is caught and sends the program back to the prompt
SaveFails_reprompts ==
    /\ pc = "render"
    /\ create_docx_table(rows_data, vars_names, user_input).ok
    /\ file' \in {NoFile, PartialFile}
    /\ pc' = "input"
    /\ UNCHANGED <<user_input, expr, variables, vars_names, rows_data,
                   saves, printed>>

\* create_docx_table with doc.save raising (path not writable, disk full):
\* nothing catches it, the run ends; the file is absent or incomplete
SaveFails ==
    /\ pc = "render"
    /\ create_docx_table(rows_data, vars_names, user_input).ok
    /\ file' \in {NoFile, PartialFile}
    /\ pc' = "exit_error"
    /\ UNCHANGED <<user_input, expr, variables, vars_names, rows_data,
                   saves, printed>>

Next == ReadLine \/ GenerateTruthTable \/ CreateDocxTable \/ SaveFails

Spec == Init /\ [][Next]_vars

(***************************************************************************)
(* The translator on its own: parse_boolean_expression is called once on   *)
(* a raw string (kept in user_input) and its outcome recorded.             *)
(***************************************************************************)
InitTranslate ==
    /\ pc = "call"
    /\ user_input \in Inputs
    /\ expr = NoValue
    /\ variables = <<>>
    /\ vars_names = <<>>
    /\ rows_data = <<>>
    /\ file = NoFile
    /\ saves = 0
    /\ printed = <<>>

\* the outcome of the call, kept in the state
Record(r) ==
    /\ expr' = r.sympy_expr
    /\ variables' = r.variables
    /\ vars_names' = r.vars_names
    /\ printed' = IF r.ok THEN <<"returned">>
                  ELSE <<"ValueError", r.error, r.cause>>

Translate ==
    /\ pc = "call"
    /\ Record(parse_boolean_expression(user_input))
    /\ pc' = "returned"
    /\ UNCHANGED <<user_input, rows_data, file, saves>>

NextTranslate == Translate

SpecTranslate == InitTranslate /\ [][NextTranslate]_vars

(***************************************************************************)
(* Vocabulary of the properties, stated on the typed text and on the       *)
(* produced rows, independently of how the program computes them.          *)
(***************************************************************************)
\* the identifiers of s: the maximal runs of identifier characters that
\* start with a letter or an underscore
Identifiers(s) ==
    {SubSeq(s, i, j) : <<i, j>> \in
        {w \in (1..Len(s)) \X (1..Len(s)) :
            /\ w[1] <= w[2]
            /\ \A k \in w[1]..w[2] : s[k] \in IdentChar
            /\ s[w[1]] \in IdentStart
            /\ (w[1] = 1 \/ s[w[1] - 1] \notin IdentChar)
            /\ (w[2] = Len(s) \/ s[w[2] + 1] \notin IdentChar)}}

IsBlank(s) == \A k \in 1..Len(s) : s[k] \in Whitespace

RECURSIVE Pow2(_)
Pow2(n) == IF n = 0 THEN 1 ELSE 2 * Pow2(n - 1)

\* the number a string of decimal digits denotes; -1 for any other string
RECURSIVE DecimalValue(_)
DecimalValue(cell) ==
    IF cell = <<>> \/ \E k \in 1..Len(cell) : cell[k] \notin Digits THEN -1
    ELSE IF Len(cell) = 1 THEN IndexOf(DigitChar, cell[1]) - 1
    ELSE 10 * DecimalValue(SubSeq(cell, 1, Len(cell) - 1))
         + (IndexOf(DigitChar, cell[Len(cell)]) - 1)

\* a before b in case-sensitive ordinal (code point) order
OrdinalLess(a, b) ==
    \E k \in 1..(Len(b)) :
        /\ \A m \in 1..(k - 1) : m <= Len(a) /\ a[m] = b[m]
        /\ \/ k = Len(a) + 1
           \/ k <= Len(a) /\ Ord(a[k]) < Ord(b[k])

\* a line has been accepted in this state
Accepted == pc \in {"generate", "render", "exit_ok", "exit_error"}

\* generate_truth_table has returned in this state
Enumerated == pc \in {"render", "exit_ok", "exit_error"}

\* the number of distinct identifiers of the accepted line
N == Cardinality(Identifiers(user_input))

\* C1: generate_truth_table returns exactly 2^N rows for the N distinct
\* identifiers of the accepted line, and the row at position i (0-based)
\* carries the decimal string of i.
C1_RowCountAndIndices ==
    Enumerated =>
        /\ Len(rows_data) = Pow2(N)
        /\ \A k \in 1..Len(rows_data) :
              /\ Len(rows_data[k]) >= 1
              /\ DecimalValue(rows_data[k][1]) = k - 1

C1_Witness ==
    /\ Enumerated
    /\ N = 3
    /\ Len(rows_data) = 8
    /\ rows_data[8][1] = <<"7">>

\* C2: in row i the N assignment cells are the N-bit binary representation
\* of i, most significant bit first, position k belonging to vars[k].
C2_BinaryCountingOrder ==
    Enumerated =>
        \A k \in 1..Len(rows_data) :
            /\ Len(rows_data[k]) = Len(vars_names) + 2
            /\ \A j \in 1..Len(vars_names) :
                  DecimalValue(rows_data[k][j + 1])
                    = ((k - 1) \div Pow2(Len(vars_names) - j)) % 2

C2_Witness ==
    /\ Enumerated
    /\ Len(vars_names) = 3
    /\ rows_data[5][2] = <<"1">>
    /\ rows_data[5][3] = <<"0">>
    /\ rows_data[5][4] = <<"0">>

\* C4: the variable list of an accepted line is non-empty, holds each
\* identifier of the line exactly once, is in ascending ordinal order, and
\* so depends only on which identifiers occur (B+A and A+B+A give [A, B]).
C4_VariableSetCanonical ==
    Accepted =>
        /\ vars_names # <<>>
        /\ set(vars_names) = Identifiers(user_input)
        /\ \A k \in 1..(Len(vars_names) - 1) :
              OrdinalLess(vars_names[k], vars_names[k + 1])
        /\ user_input \in {<<"B", "+", "A">>, <<"A", "+", "B", "+", "A">>}
              => vars_names = << <<"A">>, <<"B">> >>

C4_Witness ==
    /\ pc = "generate"
    /\ user_input = <<"B", OR_SIGN, "a", "B">>
    /\ vars_names = << <<"B">>, <<"a", "B">> >>

(***************************************************************************)
(* The notation read as a Boolean formula: NOT binds tighter than AND,     *)
(* AND tighter than OR, operators of one level group left to right, and    *)
(* parentheses override.                                                   *)
(***************************************************************************)
NotOps == {NOT_SIGN}
AndOps == {"*", "^"}
OrOps == {"+", OR_SIGN}

\* positions of s where a word of the notation starts
WordStarts(s) ==
    {p \in 1..Len(s) :
        /\ s[p] \notin Whitespace
        /\ s[p] \in IdentChar => (p = 1 \/ s[p - 1] \notin IdentChar)}

\* the word of s that starts at p: a whole name, or one symbol
WordAt(s, p) ==
    IF s[p] \in IdentChar
    THEN SubSeq(s, p, CHOOSE e \in p..Len(s) :
                        /\ \A k \in p..e : s[k] \in IdentChar
                        /\ (e = Len(s) \/ s[e + 1] \notin IdentChar))
    ELSE <<s[p]>>

\* the words of s, left to right
Words(s) ==
    LET starts == WordStarts(s)
        nth(k) == CHOOSE p \in starts :
                    Cardinality({q \in starts : q < p}) = k - 1
    IN  [k \in 1..Cardinality(starts) |-> WordAt(s, nth(k))]

IsWordIn(w, ops) == Len(w) = 1 /\ w[1] \in ops

\* open parentheses minus closed ones among t[lo..k-1]
DepthBefore(t, lo, k) ==
    Cardinality({m \in lo..(k - 1) : t[m] = <<"(">>})
    - Cardinality({m \in lo..(k - 1) : t[m] = <<")">>})

\* positions in lo..hi of the operators of ops outside every parenthesis
TopLevel(t, lo, hi, ops) ==
    {k \in lo..hi : IsWordIn(t[k], ops) /\ DepthBefore(t, lo, k) = 0}

Last(S) == CHOOSE k \in S : \A m \in S : m <= k

\* t[lo..hi] is a formula of the notation
RECURSIVE WellFormed(_, _, _)
WellFormed(t, lo, hi) ==
    IF lo > hi THEN FALSE
    ELSE IF TopLevel(t, lo, hi, OrOps) # {}
    THEN LET k == Last(TopLevel(t, lo, hi, OrOps))
         IN  WellFormed(t, lo, k - 1) /\ WellFormed(t, k + 1, hi)
    ELSE IF TopLevel(t, lo, hi, AndOps) # {}
    THEN LET k == Last(TopLevel(t, lo, hi, AndOps))
         IN  WellFormed(t, lo, k - 1) /\ WellFormed(t, k + 1, hi)
    ELSE IF IsWordIn(t[lo], NotOps) THEN WellFormed(t, lo + 1, hi)
    ELSE IF t[lo] = <<"(">> /\ t[hi] = <<")">> /\ lo < hi
    THEN WellFormed(t, lo + 1, hi - 1)
    ELSE lo = hi /\ t[lo][1] \in IdentStart

\* the truth value of the formula t[lo..hi] when name n has value env[n]
RECURSIVE FormulaValue(_, _, _, _)
FormulaValue(t, lo, hi, env) ==
    IF TopLevel(t, lo, hi, OrOps) # {}
    THEN LET k == Last(TopLevel(t, lo, hi, OrOps))
         IN  FormulaValue(t, lo, k - 1, env) \/ FormulaValue(t, k + 1, hi, env)
    ELSE IF TopLevel(t, lo, hi, AndOps) # {}
    THEN LET k == Last(TopLevel(t, lo, hi, AndOps))
         IN  FormulaValue(t, lo, k - 1, env) /\ FormulaValue(t, k + 1, hi, env)
    ELSE IF IsWordIn(t[lo], NotOps) THEN ~FormulaValue(t, lo + 1, hi, env)
    ELSE IF t[lo] = <<"(">> THEN FormulaValue(t, lo + 1, hi - 1, env)
    ELSE env[t[lo]] = 1

IsFormula(s) == WellFormed(Words(s), 1, Len(Words(s)))

\* the assignment row k shows: each name with the bit in its column
RowAssignment(k) ==
    [n \in set(vars_names) |->
        DecimalValue(rows_data[k][1 + CHOOSE j \in 1..Len(vars_names) :
                                            vars_names[j] = n])]

\* the function cell of every row, as numbers
FunctionColumn ==
    [k \in 1..Len(rows_data) |->
        DecimalValue(rows_data[k][Len(rows_data[k])])]

UnbalancedParens(s) ==
    \/ \E k \in 1..Len(s) :
          Cardinality({m \in 1..k : s[m] = ")"})
            > Cardinality({m \in 1..k : s[m] = "("})
    \/ Cardinality({m \in 1..Len(s) : s[m] = ")"})
         # Cardinality({m \in 1..Len(s) : s[m] = "("})

\* a line the translator has to refuse
Rejectable(s) == IsBlank(s) \/ Identifiers(s) = {} \/ UnbalancedParens(s)

NothingProduced == rows_data = <<>> /\ file = NoFile /\ saves = 0

\* C5: while the program prompts nothing has been enumerated or written,
\* and a step taken at the prompt either returns to the prompt with an
\* error message, or accepts a line that is not blank, has a variable and
\* has balanced parentheses: a refused line never ends the run.
C5_InvalidInputReprompts ==
    /\ [](pc = "input" => NothingProduced)
    /\ [][pc = "input" =>
            \/ pc' = "input" /\ printed' # <<>> /\ printed'[1] = "Error"
            \/ pc' = "generate" /\ ~Rejectable(user_input')
                 /\ NothingProduced']_vars

C5_Witness ==
    /\ pc = "input"
    /\ printed = <<"Error", "Invalid Boolean expression", "sympify">>
    /\ NothingProduced

(***************************************************************************)
(* The translator's failures.                                              *)
(***************************************************************************)
NothingReturned == expr = NoValue /\ variables = <<>> /\ vars_names = <<>>

C7_ArtifactShape ==
    file.ok =>
        /\ Len(file.cells) = Pow2(N) + 1
        /\ \A r \in 1..Len(file.cells) : Len(file.cells[r]) = N + 2
        /\ file.cells[1][1] = <<NUMERO_SIGN>>
        /\ file.cells[1][N + 2] = <<"f">>
        /\ {file.cells[1][c] : c \in 2..(N + 1)} = Identifiers(user_input)
        /\ \A c \in 2..N :
              OrdinalLess(file.cells[1][c], file.cells[1][c + 1])
        /\ \A r \in 2..Len(file.cells) :
              /\ DecimalValue(file.cells[r][1]) = r - 2
              /\ \A c \in 2..(N + 2) :
                    file.cells[r][c] \in {<<"0">>, <<"1">>}

C7_Witness ==
    /\ file.ok
    /\ N = 3
    /\ Len(file.cells) = 9
    /\ file.cells[1] = << <<NUMERO_SIGN>>, <<"A">>, <<"B">>, <<"C">>, <<"f">> >>
    /\ file.cells[9] = << <<"7">>, <<"1">>, <<"1">>, <<"1">>, <<"1">> >>

\* the message printed after doc.save
Confirmation == <<"Truth table saved to", "truth_table.docx">>

C10_ColumnsMatchBinding ==
    /\ Accepted =>
          /\ Len(variables) = Len(vars_names)
          /\ \A k \in 1..Len(vars_names) : variables[k][2] = vars_names[k]
    /\ Enumerated =>
          /\ \A k \in 1..Len(rows_data) :
                Len(rows_data[k]) = Len(vars_names) + 2
          /\ create_docx_table(rows_data, vars_names, user_input).ok
    /\ file.ok =>
          \A r \in 2..Len(file.cells) :
            LET cols == 2..(Len(file.cells[1]) - 1)
                bound == [v \in {<<"Symbol", file.cells[1][c]>> : c \in cols} |->
                            DecimalValue(file.cells[r][CHOOSE c \in cols :
                                            file.cells[1][c] = v[2]])]
            IN  DecimalValue(file.cells[r][Len(file.cells[r])])
                  = IF subs_bool(expr, bound) THEN 1 ELSE 0

C10_Witness ==
    /\ file.ok
    /\ user_input = <<NOT_SIGN, "A", "+", "B">>
    /\ file.cells[1] = << <<NUMERO_SIGN>>, <<"A">>, <<"B">>, <<"f">> >>
    /\ file.cells[4] = << <<"2">>, <<"1">>, <<"0">>, <<"0">> >>

=============================================================================
